---- MODULE Spec2Model ----
(***************************************************************************)
(* Model of the brand-detector video pipeline:                             *)
(*   services/detection_service.py  DetectionService.detect_video,         *)
(*                                  _generate_video_frames,                *)
(*                                  _create_video_from_frames,             *)
(*                                  _find_nearest_processed_frame          *)
(*   services/model_service.py      ModelService.switch_model,             *)
(*                                  detect_in_frame                        *)
(*   services/image_service.py      get_video_info, calculate_skip_frames  *)
(*   api/routes.py                  detect_logos_video, switch_weight      *)
(*                                                                         *)
(* The server is one asyncio event loop.  A request's coroutine runs       *)
(* without interruption between two suspension points (a yield of the      *)
(* async generator, an await).  pc[r] is the position of request r; the    *)
(* positions in BusyPcs are inside such an uninterruptible stretch.        *)
(***************************************************************************)
EXTENDS Integers, Sequences, FiniteSets, TLC

\* ---------------------------------------------------------------- bounds
MaxFrames == 3
MaxFps == 3
ConcFrames == 2
MaxIdx == 10
MaxSourceFps == 60
RouteFrames == 2
FaultyFrames == 2

\* ------------------------------------------------------------- constants
Requests == {1, 2}
DefaultWeight == "original.pt"
OtherWeight == "custom.pt"
MissingWeight == "missing.pt"
WeightsOnDisk == {DefaultWeight, OtherWeight}
WeightNames == WeightsOnDisk \cup {MissingWeight}
NoModel == "None"
NoError == <<>>
\* bounds of the frames_per_second form field accepted by detect_logos_video
MinTargetFps == 1
MaxTargetFps == 30
\* bounds of the confidence_threshold form field, in tenths (5 is 0.5)
ConfMin == 0
ConfMax == 10
\* detection lists returned by the Detection Capability (class names only)
DetLists == {<<>>, <<"logo">>}

Max(a, b) == IF a > b THEN a ELSE b
Abs(x) == IF x < 0 THEN -x ELSE x

VARIABLES
  \* ModelService / AppConfig (process-wide)
  models, current_model, selected_weight,
  loads,            \* weight -> number of models loaded from it and cached
  \* file system (process-wide)
  uploads,          \* requests whose uploaded_<...> file exists in static/
  temp_dir_exists,  \* static/temp_frames exists
  temp_frames,      \* static/temp_frames: index -> [owner, src, boxes]
  frames_dir,       \* static/frames: index -> owner
  outputs,          \* requests whose processed_<...> video exists
  \* environment
  clients,          \* requests that will be issued
  video,            \* r -> [frames, fps, openable] : the uploaded source
  target_fps,       \* r -> frames_per_second form field
  ffmpeg_installed, \* the encoder binary is on PATH
  storage_faulty,   \* deleting files may fail
  kind,             \* r -> "video" (POST /video/detect) or "image" (/images/detect)
  confidence,       \* r -> confidence_threshold form field, in tenths
  file_valid,       \* r -> validate_video_file / validate_image_file accepts the upload
  \* per request
  pc, skip_frames, frame_count, processed_count, detection_results,
  cap_open, events, error,
  \* history of calls made by each request
  submitted,        \* frames passed to detect_in_frame, with the model used
  start_model,      \* current_model when the request was accepted
  scratch_log,      \* frames written to temp_frames by the second pass
  upload_read,      \* file.read() was called on the upload
  unlink_tried,     \* os.unlink was called on the saved upload
  \* inputs / result of _find_nearest_processed_frame
  nf_in, nf_out,
  \* inputs / result of calculate_skip_frames
  sk_in, sk_out

svcVars == <<models, current_model, selected_weight, loads>>
fsVars == <<uploads, temp_dir_exists, temp_frames, frames_dir, outputs>>
envVars == <<clients, video, target_fps, ffmpeg_installed, storage_faulty,
             kind, confidence, file_valid>>
reqVars == <<pc, skip_frames, frame_count, processed_count, detection_results,
             cap_open, events, error>>
callVars == <<submitted, start_model, scratch_log, upload_read>>
histVars == <<callVars, unlink_tried>>
nfVars == <<nf_in, nf_out, sk_in, sk_out>>
vars == <<svcVars, fsVars, envVars, reqVars, histVars, nfVars>>

\* ------------------------------------------------------- pure functions

\* variant: the quotient is used as it is
calculate_skip_frames_NoFloor(video_fps, target) == video_fps \div target

\* ImageService.calculate_skip_frames
calculate_skip_frames(video_fps, target) == Max(1, video_fps \div target)

\* sorted(processed_frames): ascending sequence of a finite set of integers
RECURSIVE Sorted(_)
Sorted(S) ==
  IF S = {} THEN <<>>
  ELSE LET m == CHOOSE x \in S : \A y \in S : x <= y
       IN <<m>> \o Sorted(S \ {m})

\* variant: "distance <= min_distance", the last of two equally distant wins
RECURSIVE NearestScan_LastWins(_, _, _, _, _)
NearestScan_LastWins(current_frame, fs, k, nearest, min_distance) ==
  IF k > Len(fs) THEN nearest
  ELSE LET distance == Abs(current_frame - fs[k])
       IN IF distance <= min_distance
          THEN NearestScan_LastWins(current_frame, fs, k + 1, fs[k], distance)
          ELSE NearestScan_LastWins(current_frame, fs, k + 1, nearest, min_distance)

\* the for-loop of _find_nearest_processed_frame from position k on
RECURSIVE NearestScan(_, _, _, _, _)
NearestScan(current_frame, fs, k, nearest, min_distance) ==
  IF k > Len(fs) THEN nearest
  ELSE LET distance == Abs(current_frame - fs[k])
       IN IF distance < min_distance
          THEN NearestScan(current_frame, fs, k + 1, fs[k], distance)
          ELSE NearestScan(current_frame, fs, k + 1, nearest, min_distance)

\* DetectionService._find_nearest_processed_frame
FindNearestProcessedFrame(current_frame, processed_frames) ==
  IF processed_frames = {} THEN current_frame
  ELSE LET fs == Sorted(processed_frames)
       IN NearestScan(current_frame, fs, 1, fs[1], Abs(current_frame - fs[1]))

\* dict assignment d[k] = v
Put(d, k, v) == [x \in DOMAIN d \cup {k} |-> IF x = k THEN v ELSE d[x]]
EmptyDict == [x \in {} |-> 0]

\* one record of the progress stream ("data: <json>\n\n")
Ev(type, num, total) ==
  [type |-> type, num |-> num, total |-> total, file |-> <<>>]

\* the decimal digits of n, most significant first
RECURSIVE Digits(_)
Digits(n) == IF n < 10 THEN <<n>> ELSE Digits(n \div 10) \o <<n % 10>>

\* width of the index in "frame_{...:06d}.jpg"
FilenameWidth == 6

\* format spec 0<width>d applied to the digits ds
RECURSIVE ZeroPad(_, _)
ZeroPad(ds, width) ==
  IF Len(ds) >= width THEN ds ELSE ZeroPad(<<0>> \o ds, width)

\* f"frame_{index:06d}.jpg", as the digits between "frame_" and ".jpg"
FrameFilename(index) == ZeroPad(Digits(index), FilenameWidth)

\* variant: frames are numbered by their position in the source
FrameIndex_Source(fc, processed) == fc

\* the index used for frame_filename and "frame_number": processed_count
FrameIndex(fc, processed) == processed

\* frame_data of a frame event
FrameEv(index, total) ==
  [type |-> "frame", num |-> index, total |-> total,
   file |-> FrameFilename(index)]

\* positions inside an uninterruptible stretch of a coroutine
BusyPcs == {"read1", "read2", "spawn"}
\* positions where the async generator is suspended and can be closed
ClosablePcs == {"y_status", "sleep", "y_frame", "y_complete", "enc_wait"}
NoneBusy == \A q \in Requests : pc[q] \notin BusyPcs

\* ------------------------------------------------------------ ModelService

\* variant: the cache is not consulted
NeedsLoad_Always(weight_name, cache) == TRUE

\* "if weight_name not in self.models"
NeedsLoad(weight_name, cache) == weight_name \notin cache

\* ModelService.switch_model (called by routes.switch_weight)
switch_model(weight_name) ==
  /\ NoneBusy
  /\ IF weight_name \notin WeightsOnDisk
     THEN UNCHANGED svcVars                                  \* return False
     ELSE /\ selected_weight' = weight_name
          /\ IF NeedsLoad(weight_name, models)
             THEN \/ /\ models' = models \cup {weight_name}  \* YOLO(...) loaded
                     /\ loads' = [loads EXCEPT ![weight_name] = @ + 1]
                     /\ current_model' = weight_name
                  \/ UNCHANGED <<models, loads, current_model>>  \* YOLO(...) raised
             ELSE /\ UNCHANGED <<models, loads>>
                  /\ current_model' = weight_name
  /\ UNCHANGED <<fsVars, envVars, reqVars, histVars, nfVars>>

\* --------------------------------------------------------- request set-up

\* the body of the finally: clause of _generate_video_frames, and of the
\* except: clause of detect_video: os.unlink(video_path), errors swallowed
UnlinkUpload(r) ==
  /\ uploads' \in (IF storage_faulty THEN {uploads \ {r}, uploads}
                                     ELSE {uploads \ {r}})
  /\ unlink_tried' = [unlink_tried EXCEPT ![r] = TRUE]

\* variant: the error of a failed os.unlink is raised
AfterUnlink_Raises(pending, unlinked) ==
  IF unlinked THEN pending ELSE <<"OSError", "unlink">>

\* "try: os.unlink(video_path) / except: pass": the exception under way when
\* the cleanup started (none: NoError) is the one that goes on after it
AfterUnlink(pending, unlinked) == pending

\* "if confidence_threshold < 0.0 or confidence_threshold > 1.0"
\* variant: only the lower bound is tested
ConfidenceRejected_LowOnly(c) == c < ConfMin

ConfidenceRejected(c) == c < ConfMin \/ c > ConfMax

\* "if frames_per_second < 1 or frames_per_second > 30"
FpsRejected(f) == f < MinTargetFps \/ f > MaxTargetFps

\* raise HTTPException(..., detail=detail) before the try: of a route
Reject(r, detail) ==
  /\ pc' = [pc EXCEPT ![r] = "rejected"]
  /\ error' = [error EXCEPT ![r] = <<detail>>]
  /\ UNCHANGED upload_read

\* routes.detect_logos_video up to "contents = await file.read()"
detect_logos_video(r) ==
  /\ pc[r] = "idle" /\ r \in clients /\ kind[r] = "video" /\ NoneBusy
  /\ IF current_model = NoModel
     THEN Reject(r, "Model not loaded")
     ELSE IF ~file_valid[r]
     THEN Reject(r, "File must be a video")
     ELSE IF FpsRejected(target_fps[r])
     THEN Reject(r, "Frames per second must be between 1 and 30")
     ELSE IF ConfidenceRejected(confidence[r])
     THEN Reject(r, "Confidence threshold must be between 0.0 and 1.0")
     ELSE /\ pc' = [pc EXCEPT ![r] = "reading"]
          /\ upload_read' = [upload_read EXCEPT ![r] = TRUE]
          /\ UNCHANGED error
  /\ UNCHANGED <<svcVars, fsVars, envVars, skip_frames, frame_count,
                 processed_count, detection_results, cap_open, events,
                 submitted, start_model, scratch_log, unlink_tried,
                 nfVars>>

\* variant: the except: clause of detect_video leaves the saved upload
CleanupOnError_Skipped(ups, r) == ups

\* except: clause of detect_video: os.unlink(video_path) succeeded
CleanupOnError(ups, r) == ups \ {r}

\* DetectionService.detect_video, called by the route with the bytes read:
\* the upload is saved, then get_video_info opens it or raises
detect_video(r) ==
  /\ pc[r] = "reading" /\ NoneBusy
  /\ IF ~video[r].openable
     THEN /\ pc' = [pc EXCEPT ![r] = "failed"]
          /\ LET saved == uploads \cup {r}
             IN uploads' \in (IF storage_faulty
                              THEN {CleanupOnError(saved, r), saved}
                              ELSE {CleanupOnError(saved, r)})
          /\ unlink_tried' = [unlink_tried EXCEPT ![r] = TRUE]
          /\ error' = [error EXCEPT ![r] =
                 <<"Error processing video">> \o
                 AfterUnlink(<<"Could not open video file">>, r \notin uploads')]
          /\ UNCHANGED <<skip_frames, start_model>>
     ELSE /\ uploads' = uploads \cup {r}
          /\ skip_frames' = [skip_frames EXCEPT ![r] =
                 calculate_skip_frames(video[r].fps, target_fps[r])]
          /\ start_model' = [start_model EXCEPT ![r] = current_model]
          /\ pc' = [pc EXCEPT ![r] = "created"]
          /\ UNCHANGED <<error, unlink_tried>>
  /\ UNCHANGED <<svcVars, temp_dir_exists, temp_frames, frames_dir, outputs,
                 envVars, frame_count, processed_count, detection_results,
                 cap_open, events, submitted, scratch_log, upload_read, nfVars>>

\* routes.detect_logos_images for one uploaded file, up to "await file.read()"
detect_logos_images(r) ==
  /\ pc[r] = "idle" /\ r \in clients /\ kind[r] = "image" /\ NoneBusy
  /\ IF current_model = NoModel
     THEN Reject(r, "Model not loaded")
     ELSE IF ConfidenceRejected(confidence[r])
     THEN Reject(r, "Confidence threshold must be between 0.0 and 1.0")
     ELSE IF ~file_valid[r]
     THEN /\ pc' = [pc EXCEPT ![r] = "responded"]   \* result entry with "error"
          /\ UNCHANGED <<error, upload_read>>
     ELSE /\ pc' = [pc EXCEPT ![r] = "img_reading"]
          /\ upload_read' = [upload_read EXCEPT ![r] = TRUE]
          /\ UNCHANGED error
  /\ UNCHANGED <<svcVars, fsVars, envVars, skip_frames, frame_count,
                 processed_count, detection_results, cap_open, events,
                 submitted, start_model, scratch_log, unlink_tried,
                 nfVars>>

\* ModelService.detect_in_image and the rest of the route's loop body
detect_in_image(r) ==
  /\ pc[r] = "img_reading" /\ NoneBusy
  /\ \/ /\ pc' = [pc EXCEPT ![r] = "failed"]        \* cv2.imdecode gave None
        /\ error' = [error EXCEPT ![r] =
               <<"Error processing images", "Could not decode image">>]
        /\ UNCHANGED submitted
     \/ /\ submitted' = [submitted EXCEPT ![r] = Append(@,
               [frame |-> 0, model |-> current_model, outcome |-> "ok"])]
        /\ pc' = [pc EXCEPT ![r] = "responded"]
        /\ UNCHANGED error
  /\ UNCHANGED <<svcVars, fsVars, envVars, skip_frames, frame_count,
                 processed_count, detection_results, cap_open, events,
                 start_model, scratch_log, upload_read, unlink_tried, nfVars>>

\* estimated_processed_frames
EstimatedProcessedFrames(total_video_frames, skip) ==
  IF skip > 0 THEN total_video_frames \div skip ELSE total_video_frames

\* _generate_video_frames up to its first yield (the status event).  The
\* capture is opened and temp_frames_dir.mkdir(exist_ok=True) is called
\* before the try: block is entered; when mkdir raises, the exception leaves
\* the generator without passing through its finally: clause.
GenStart(r) ==
  /\ pc[r] = "created" /\ NoneBusy
  /\ cap_open' = [cap_open EXCEPT ![r] = TRUE]
  /\ frame_count' = [frame_count EXCEPT ![r] = 0]
  /\ processed_count' = [processed_count EXCEPT ![r] = 0]
  /\ \E made \in (IF storage_faulty THEN BOOLEAN ELSE {TRUE}) :
       IF made
       THEN /\ temp_dir_exists' = TRUE
            /\ detection_results' = [detection_results EXCEPT ![r] = EmptyDict]
            /\ events' = [events EXCEPT ![r] = Append(@,
                  Ev("status",
                     EstimatedProcessedFrames(video[r].frames, skip_frames[r]), 0))]
            /\ pc' = [pc EXCEPT ![r] = "y_status"]
            /\ UNCHANGED error
       ELSE /\ pc' = [pc EXCEPT ![r] = "crashed"]
            /\ error' = [error EXCEPT ![r] = <<"OSError", "temp_frames">>]
            /\ UNCHANGED <<temp_dir_exists, detection_results, events>>
  /\ UNCHANGED <<svcVars, uploads, temp_frames, frames_dir, outputs, envVars,
                 skip_frames, histVars, nfVars>>

\* the generator is resumed after the status event and enters the first loop
ResumeAfterStatus(r) ==
  /\ pc[r] = "y_status" /\ NoneBusy
  /\ pc' = [pc EXCEPT ![r] = "read1"]
  /\ UNCHANGED <<svcVars, fsVars, envVars, skip_frames, frame_count,
                 processed_count, detection_results, cap_open, events, error,
                 histVars, nfVars>>

\* ------------------------------------------------- first pass (sampling)

\* variant: the interval test is missing, every frame is sampled
IsSampled_Every(fc, skip) == TRUE

\* variant: the last frame of each interval is sampled instead of the first
IsSampled_EndOfInterval(fc, skip) == (fc + 1) % skip = 0

\* "if frame_count % skip_frames == 0"
IsSampled(fc, skip) == fc % skip = 0

\* variant: the handler only logs and records nothing
OnFrameError_LogOnly(results, fc) == results

\* the except: handler of the first pass, "detection_results[frame_count] = ([], frame)"
OnFrameError(results, fc) == Put(results, fc, <<>>)

\* variant: the exception leaves the generator instead of being handled
AfterFrameError_Propagates == "aborted"

\* position after the except: handler of the first pass has run
AfterFrameError == "read1"

\* finally: of _generate_video_frames, reached by an exception or a close
Abort(r, exc) ==
  /\ pc' = [pc EXCEPT ![r] = "aborted"]
  /\ cap_open' = [cap_open EXCEPT ![r] = FALSE]
  /\ UnlinkUpload(r)
  /\ error' = [error EXCEPT ![r] = AfterUnlink(exc, r \notin uploads')]

\* cap.read() returns a frame that is not sampled
SkipFrame1(r) ==
  /\ pc[r] = "read1"
  /\ frame_count[r] < video[r].frames
  /\ ~IsSampled(frame_count[r], skip_frames[r])
  /\ frame_count' = [frame_count EXCEPT ![r] = @ + 1]
  /\ UNCHANGED <<svcVars, fsVars, envVars, pc, skip_frames, processed_count,
                 detection_results, cap_open, events, error, histVars, nfVars>>

\* detect_in_frame raises on a sampled frame
DetectRaises(r) ==
  /\ pc[r] = "read1"
  /\ frame_count[r] < video[r].frames
  /\ IsSampled(frame_count[r], skip_frames[r])
  /\ submitted' = [submitted EXCEPT ![r] = Append(@,
        [frame |-> frame_count[r], model |-> current_model, outcome |-> "raise"])]
  /\ detection_results' = [detection_results EXCEPT ![r] =
        OnFrameError(@, frame_count[r])]
  /\ frame_count' = [frame_count EXCEPT ![r] = @ + 1]
  /\ pc' = [pc EXCEPT ![r] = AfterFrameError]
  /\ UNCHANGED <<svcVars, fsVars, envVars, skip_frames, processed_count,
                 cap_open, events, error, start_model, scratch_log, upload_read, unlink_tried, nfVars>>

\* detect_in_frame returns annotated_frame = None (no result object)
DetectNoImage(r) ==
  /\ pc[r] = "read1"
  /\ frame_count[r] < video[r].frames
  /\ IsSampled(frame_count[r], skip_frames[r])
  /\ submitted' = [submitted EXCEPT ![r] = Append(@,
        [frame |-> frame_count[r], model |-> current_model, outcome |-> "none"])]
  /\ frame_count' = [frame_count EXCEPT ![r] = @ + 1]
  /\ UNCHANGED <<svcVars, fsVars, envVars, pc, skip_frames, processed_count,
                 detection_results, cap_open, events, error, start_model,
                 scratch_log, upload_read, unlink_tried, nfVars>>

\* detect_in_frame returns detections and an annotated frame; the frame is
\* stored, written to static/frames, and the coroutine sleeps.  A failing
\* write raises into the except: handler.
DetectOk(r) ==
  /\ pc[r] = "read1"
  /\ frame_count[r] < video[r].frames
  /\ IsSampled(frame_count[r], skip_frames[r])
  /\ submitted' = [submitted EXCEPT ![r] = Append(@,
        [frame |-> frame_count[r], model |-> current_model, outcome |-> "ok"])]
  /\ \E detections \in DetLists :
     \E saved \in (IF storage_faulty THEN BOOLEAN ELSE {TRUE}) :
       IF saved
       THEN /\ detection_results' = [detection_results EXCEPT ![r] =
                  Put(@, frame_count[r], detections)]
            /\ frames_dir' = Put(frames_dir,
                  FrameIndex(frame_count[r], processed_count[r]), r)
            /\ pc' = [pc EXCEPT ![r] = "sleep"]
            /\ UNCHANGED frame_count
       ELSE /\ detection_results' = [detection_results EXCEPT ![r] =
                  OnFrameError(Put(@, frame_count[r], detections), frame_count[r])]
            /\ frame_count' = [frame_count EXCEPT ![r] = @ + 1]
            /\ pc' = [pc EXCEPT ![r] = AfterFrameError]
            /\ UNCHANGED frames_dir
  /\ UNCHANGED <<svcVars, uploads, temp_dir_exists, temp_frames, outputs,
                 envVars, skip_frames, processed_count, cap_open, events,
                 error, start_model, scratch_log, upload_read, unlink_tried, nfVars>>

\* after asyncio.sleep: build frame_data (timestamp = frame_count / fps) and
\* yield the frame event; a zero fps raises into the except: handler
AfterSleep(r) ==
  /\ pc[r] = "sleep" /\ NoneBusy
  /\ IF video[r].fps = 0
     THEN /\ detection_results' = [detection_results EXCEPT ![r] =
                OnFrameError(@, frame_count[r])]
          /\ frame_count' = [frame_count EXCEPT ![r] = @ + 1]
          /\ pc' = [pc EXCEPT ![r] = AfterFrameError]
          /\ UNCHANGED events
     ELSE /\ events' = [events EXCEPT ![r] = Append(@,
                FrameEv(FrameIndex(frame_count[r], processed_count[r]),
                        Len(detection_results[r][frame_count[r]])))]
          /\ pc' = [pc EXCEPT ![r] = "y_frame"]
          /\ UNCHANGED <<detection_results, frame_count>>
  /\ UNCHANGED <<svcVars, fsVars, envVars, skip_frames, processed_count,
                 cap_open, error, histVars, nfVars>>

\* resumed after the frame event: processed_count += 1; frame_count += 1
AfterFrameYield(r) ==
  /\ pc[r] = "y_frame" /\ NoneBusy
  /\ processed_count' = [processed_count EXCEPT ![r] = @ + 1]
  /\ frame_count' = [frame_count EXCEPT ![r] = @ + 1]
  /\ pc' = [pc EXCEPT ![r] = "read1"]
  /\ UNCHANGED <<svcVars, fsVars, envVars, skip_frames, detection_results,
                 cap_open, events, error, histVars, nfVars>>

\* variant: the first loop is left one frame before the end of the source
FirstPassOver_Early(fc, total) == fc + 1 >= total

\* "ret, frame = cap.read(); if not ret: break" in the first loop
FirstPassOver(fc, total) == fc >= total

\* variant: the number of source frames read is reported
CompleteTotal_Read(fc, processed) == fc

\* 'total_frames': processed_count in the complete event
CompleteTotal(fc, processed) == processed

\* cap.read() returns ret = False: break, yield the complete event
EndOfPass1(r) ==
  /\ pc[r] = "read1"
  /\ FirstPassOver(frame_count[r], video[r].frames)
  /\ events' = [events EXCEPT ![r] = Append(@,
        Ev("complete", CompleteTotal(frame_count[r], processed_count[r]), 0))]
  /\ pc' = [pc EXCEPT ![r] = "y_complete"]
  /\ UNCHANGED <<svcVars, fsVars, envVars, skip_frames, frame_count,
                 processed_count, detection_results, cap_open, error,
                 histVars, nfVars>>

\* -------------------------------------------- second pass (interpolation)

\* resumed after the complete event: cap.release(), reopen, frame_count = 0
AfterComplete(r) ==
  /\ pc[r] = "y_complete" /\ NoneBusy
  /\ frame_count' = [frame_count EXCEPT ![r] = 0]
  /\ pc' = [pc EXCEPT ![r] = "read2"]
  /\ UNCHANGED <<svcVars, fsVars, envVars, skip_frames, processed_count,
                 detection_results, cap_open, events, error, histVars, nfVars>>

\* _apply_detections_to_frame: a copy of the frame with the boxes drawn
ApplyDetectionsToFrame(fc, detections) == [src |-> fc, boxes |-> detections]

\* variant: the annotated frame stored with the nearest entry is written
PassThrough_Stored(fc, nearest_frame) == [src |-> nearest_frame, boxes |-> <<>>]

\* "annotated_frame = frame": the frame as read from the source
PassThrough(fc, nearest_frame) == [src |-> fc, boxes |-> <<>>]

\* the frame written for source frame fc: the boxes of the nearest processed
\* frame drawn on frame fc's own pixels, or the frame itself
RenderFrame(fc, results) ==
  LET nearest_frame == FindNearestProcessedFrame(fc, DOMAIN results)
  IN IF nearest_frame \in DOMAIN results
     THEN IF results[nearest_frame] # <<>>
          THEN ApplyDetectionsToFrame(fc, results[nearest_frame])
          ELSE PassThrough(fc, nearest_frame)
     ELSE PassThrough(fc, nearest_frame)

\* variant: the scratch file is numbered like the frames of the first pass,
\* by a counter that only sampled frames advance
ScratchIndex_Sampled(fc) == fc \div 2

\* name index of the scratch file, "frame_{frame_count:06d}.jpg"
ScratchIndex(fc) == fc

\* one iteration of the second loop: cv2.imwrite + touch in static/temp_frames;
\* touch raises when the directory is gone or the file cannot be created
Pass2Frame(r) ==
  /\ pc[r] = "read2"
  /\ frame_count[r] < video[r].frames
  /\ \E touched \in (IF storage_faulty THEN BOOLEAN ELSE {TRUE}) :
     IF temp_dir_exists /\ touched
     THEN LET annotated_frame == RenderFrame(frame_count[r], detection_results[r])
              idx == ScratchIndex(frame_count[r])
          IN /\ temp_frames' = Put(temp_frames, idx,
                    [owner |-> r, src |-> annotated_frame.src,
                     boxes |-> annotated_frame.boxes])
             /\ scratch_log' = [scratch_log EXCEPT ![r] =
                    Append(@, [idx |-> idx, src |-> annotated_frame.src,
                               boxes |-> annotated_frame.boxes])]
             /\ frame_count' = [frame_count EXCEPT ![r] = @ + 1]
             /\ UNCHANGED <<pc, error, cap_open, uploads, unlink_tried>>
     ELSE /\ Abort(r, IF temp_dir_exists
                       THEN <<"OSError", "temp_frames">>
                       ELSE <<"FileNotFoundError", "temp_frames">>)
          /\ UNCHANGED <<temp_frames, scratch_log, frame_count>>
  /\ UNCHANGED <<svcVars, temp_dir_exists, frames_dir, outputs, envVars,
                 skip_frames, processed_count, detection_results, events,
                 submitted, start_model, upload_read, nfVars>>

\* cap.read() returns ret = False in the second loop
EndOfPass2(r) ==
  /\ pc[r] = "read2"
  /\ frame_count[r] >= video[r].frames
  /\ pc' = [pc EXCEPT ![r] = "spawn"]
  /\ UNCHANGED <<svcVars, fsVars, envVars, skip_frames, frame_count,
                 processed_count, detection_results, cap_open, events, error,
                 histVars, nfVars>>

\* ---------------------------------------------------------------- encoding

\* variant: every exception goes through the generic "except Exception" clause
CreateVideoError_Generic(exc) == <<"Error creating video with FFmpeg">> \o exc

\* the exception that leaves _create_video_from_frames when exc is raised
\* inside its try: block
CreateVideoError(exc) ==
  IF exc = <<"FileNotFoundError">>
  THEN <<"FFmpeg not found. Please install FFmpeg to process videos.">>
  ELSE <<"Error creating video with FFmpeg">> \o exc

\* asyncio.create_subprocess_exec('ffmpeg', ...)
Spawn(r) ==
  /\ pc[r] = "spawn"
  /\ IF ffmpeg_installed
     THEN /\ pc' = [pc EXCEPT ![r] = "enc_wait"]
          /\ UNCHANGED <<error, cap_open, uploads, unlink_tried>>
     ELSE Abort(r, CreateVideoError(<<"FileNotFoundError">>))
  /\ UNCHANGED <<svcVars, temp_dir_exists, temp_frames, frames_dir, outputs,
                 envVars, skip_frames, frame_count, processed_count,
                 detection_results, events, callVars, nfVars>>

\* shutil.rmtree(temp_frames_dir, ignore_errors=True)
RmTree ==
  /\ temp_frames' \in (IF storage_faulty THEN {EmptyDict, temp_frames}
                                         ELSE {EmptyDict})
  /\ temp_dir_exists' = (temp_frames' # EmptyDict)

\* variant: the exit code of the encoder is not looked at
EncoderSucceeded_Unchecked(returncode) == TRUE

\* "if process.returncode != 0: raise", negated
EncoderSucceeded(returncode) == returncode = 0

\* process.communicate() returns; on exit code 0 the scratch directory is
\* removed and video_ready is yielded
EncoderExit(r) ==
  /\ pc[r] = "enc_wait" /\ NoneBusy
  /\ \E returncode \in (IF frame_count[r] > 0 THEN {0, 1} ELSE {1}) :
       /\ outputs' = (IF returncode = 0 THEN outputs \cup {r} ELSE outputs)
       /\ IF ~EncoderSucceeded(returncode)
          THEN /\ Abort(r, CreateVideoError(<<"FFmpeg failed to create video">>))
               /\ UNCHANGED <<temp_dir_exists, temp_frames, events>>
          ELSE /\ RmTree
               /\ events' = [events EXCEPT ![r] = Append(@, Ev("video_ready", 0, 0))]
               /\ pc' = [pc EXCEPT ![r] = "y_ready"]
               /\ UNCHANGED <<error, cap_open, uploads, unlink_tried>>
  /\ UNCHANGED <<svcVars, frames_dir, envVars, skip_frames, frame_count,
                 processed_count, detection_results, callVars, nfVars>>

\* resumed (or closed) after video_ready: the finally: clause runs
Finish(r) ==
  /\ pc[r] = "y_ready" /\ NoneBusy
  /\ pc' = [pc EXCEPT ![r] = "done"]
  /\ cap_open' = [cap_open EXCEPT ![r] = FALSE]
  /\ UnlinkUpload(r)
  /\ error' = [error EXCEPT ![r] = AfterUnlink(@, r \notin uploads')]
  /\ UNCHANGED <<svcVars, temp_dir_exists, temp_frames, frames_dir, outputs,
                 envVars, skip_frames, frame_count, processed_count,
                 detection_results, events, callVars, nfVars>>

\* the consumer goes away while the generator is suspended: GeneratorExit at
\* a yield, CancelledError at an await; neither is caught by "except Exception"
Close(r) ==
  /\ pc[r] \in ClosablePcs /\ NoneBusy
  /\ Abort(r, <<"closed">>)
  /\ UNCHANGED <<svcVars, temp_dir_exists, temp_frames, frames_dir, outputs,
                 envVars, skip_frames, frame_count, processed_count,
                 detection_results, events, callVars, nfVars>>

\* ------------------------------------------- _find_nearest_processed_frame

NotComputed == 0 - 1

find_nearest ==
  /\ nf_out = NotComputed
  /\ nf_out' = FindNearestProcessedFrame(nf_in.cur, nf_in.keys)
  /\ UNCHANGED <<svcVars, fsVars, envVars, reqVars, histVars, nf_in, sk_in, sk_out>>

\* ---------------------------------------------------- calculate_skip_frames

skip_frames_call ==
  /\ sk_out = NotComputed
  /\ sk_out' = calculate_skip_frames(sk_in.video_fps, sk_in.target_fps)
  /\ UNCHANGED <<svcVars, fsVars, envVars, reqVars, histVars, nf_in, nf_out, sk_in>>

\* ------------------------------------------------------------ specifications

\* no call of a pure function is under way
NoNearestCall == nf_in = [cur |-> 0, keys |-> {}] /\ nf_out = NotComputed
NoSkipCall == sk_in = [video_fps |-> 0, target_fps |-> 1] /\ sk_out = NotComputed

IdleVideo == [frames |-> 0, fps |-> 0, openable |-> FALSE]
Videos(maxFrames, fpsSet) ==
  {[frames |-> n, fps |-> f, openable |-> TRUE] : n \in 0..maxFrames, f \in fpsSet}
    \cup {IdleVideo}

\* state after LogoDetectionApp() was constructed: ModelService.__init__ has
\* called switch_model(config.selected_weight), which loaded the model or not
InitProcess ==
  /\ selected_weight = DefaultWeight
  /\ \/ models = {DefaultWeight} /\ current_model = DefaultWeight
     \/ models = {} /\ current_model = NoModel
  /\ loads = [w \in WeightNames |-> IF w \in models THEN 1 ELSE 0]
  /\ uploads = {} /\ outputs = {}
  /\ temp_dir_exists = FALSE /\ temp_frames = EmptyDict /\ frames_dir = EmptyDict
  /\ pc = [r \in Requests |-> "idle"]
  /\ skip_frames = [r \in Requests |-> 1]
  /\ frame_count = [r \in Requests |-> 0]
  /\ processed_count = [r \in Requests |-> 0]
  /\ detection_results = [r \in Requests |-> EmptyDict]
  /\ cap_open = [r \in Requests |-> FALSE]
  /\ events = [r \in Requests |-> <<>>]
  /\ error = [r \in Requests |-> NoError]
  /\ submitted = [r \in Requests |-> <<>>]
  /\ start_model = [r \in Requests |-> NoModel]
  /\ scratch_log = [r \in Requests |-> <<>>]
  /\ upload_read = [r \in Requests |-> FALSE]
  /\ unlink_tried = [r \in Requests |-> FALSE]

\* every request is a video request with form fields the route accepts
ValidForms ==
  /\ kind = [r \in Requests |-> "video"]
  /\ confidence = [r \in Requests |-> 5]
  /\ file_valid = [r \in Requests |-> TRUE]

\* one client, any source of up to MaxFrames frames; with one detection per
\* second asked for, the skip interval is the frame rate of the source
Init ==
  /\ InitProcess
  /\ clients = {1}
  /\ \E v \in Videos(MaxFrames, 0..MaxFps) :
       video = [r \in Requests |-> IF r = 1 THEN v ELSE IdleVideo]
  /\ target_fps = [r \in Requests |-> MinTargetFps]
  /\ ffmpeg_installed \in BOOLEAN
  /\ storage_faulty = FALSE
  /\ ValidForms
  /\ NoNearestCall /\ NoSkipCall

RequestStep(r) ==
  \/ detect_logos_video(r)
  \/ detect_video(r) \/ GenStart(r) \/ ResumeAfterStatus(r)
  \/ SkipFrame1(r) \/ DetectRaises(r) \/ DetectNoImage(r) \/ DetectOk(r)
  \/ AfterSleep(r) \/ AfterFrameYield(r) \/ EndOfPass1(r)
  \/ AfterComplete(r) \/ Pass2Frame(r) \/ EndOfPass2(r)
  \/ Spawn(r) \/ EncoderExit(r) \/ Finish(r) \/ Close(r)

Next ==
  \/ \E r \in Requests : RequestStep(r)
  \/ \E w \in WeightNames : switch_model(w)

Spec == Init /\ [][Next]_vars

\* the steps of a request that the event loop and a consumer that keeps
\* reading take by themselves; the encoder process exits (EncoderExit)
Progress(r) ==
  \/ detect_logos_video(r)
  \/ detect_video(r) \/ GenStart(r) \/ ResumeAfterStatus(r)
  \/ SkipFrame1(r) \/ DetectRaises(r) \/ DetectNoImage(r) \/ DetectOk(r)
  \/ AfterSleep(r) \/ AfterFrameYield(r) \/ EndOfPass1(r)
  \/ AfterComplete(r) \/ Pass2Frame(r) \/ EndOfPass2(r)
  \/ Spawn(r) \/ EncoderExit(r) \/ Finish(r)

\* Spec with a ready coroutine always scheduled again
SpecLive == Spec /\ \A r \in Requests : WF_vars(Progress(r))

\* two clients at the same time
InitConc ==
  /\ InitProcess
  /\ current_model = DefaultWeight
  /\ clients = Requests
  /\ video \in [Requests -> {v \in Videos(ConcFrames, 1..2) : v.openable /\ v.frames > 0}]
  /\ target_fps = [r \in Requests |-> 1]
  /\ ffmpeg_installed \in BOOLEAN
  /\ storage_faulty = FALSE
  /\ ValidForms
  /\ NoNearestCall /\ NoSkipCall

NextConc == \E r \in Requests : RequestStep(r)

SpecConc == InitConc /\ [][NextConc]_vars

\* one client on storage where deleting and creating files may fail
InitFaulty ==
  /\ InitProcess
  /\ current_model = DefaultWeight
  /\ clients = {1}
  /\ \E v \in Videos(FaultyFrames, 1..2) :
       video = [r \in Requests |-> IF r = 1 THEN v ELSE IdleVideo]
  /\ target_fps = [r \in Requests |-> 1]
  /\ ffmpeg_installed \in BOOLEAN
  /\ storage_faulty = TRUE
  /\ ValidForms
  /\ NoNearestCall /\ NoSkipCall

NextFaulty == \E r \in Requests : RequestStep(r)

SpecFaulty == InitFaulty /\ [][NextFaulty]_vars

\* form fields at and beyond the limits the routes test
ConfValues == {0 - 1, 0, 10, 11}
FpsValues == {0, 1, 31}

\* request 1 is a video request and request 2 an image request, with any
\* form fields
InitRoute ==
  /\ InitProcess
  /\ clients = Requests
  /\ \E v \in Videos(RouteFrames, {2}) :
       video = [r \in Requests |-> IF r = 1 THEN v ELSE IdleVideo]
  /\ \E t \in FpsValues : target_fps = [r \in Requests |-> t]
  /\ ffmpeg_installed \in BOOLEAN
  /\ storage_faulty = FALSE
  /\ kind = [r \in Requests |-> IF r = 1 THEN "video" ELSE "image"]
  /\ confidence \in [Requests -> ConfValues]
  /\ file_valid \in [Requests -> BOOLEAN]
  /\ NoNearestCall /\ NoSkipCall

ImageStep(r) == detect_logos_images(r) \/ detect_in_image(r)

NextRoute == \E r \in Requests : RequestStep(r) \/ ImageStep(r)

SpecRoute == InitRoute /\ [][NextRoute]_vars

\* _find_nearest_processed_frame on every index and key set up to MaxIdx
InitNearest ==
  /\ InitProcess
  /\ current_model = DefaultWeight
  /\ clients = {}
  /\ video = [r \in Requests |-> IdleVideo]
  /\ target_fps = [r \in Requests |-> 1]
  /\ ffmpeg_installed = TRUE
  /\ storage_faulty = FALSE
  /\ ValidForms
  /\ nf_in \in [cur : 0..MaxIdx, keys : SUBSET (0..MaxIdx)]
  /\ nf_out = NotComputed
  /\ NoSkipCall

NextNearest == find_nearest

SpecNearest == InitNearest /\ [][NextNearest]_vars

\* calculate_skip_frames on every source rate up to MaxSourceFps and every
\* target rate the video route accepts
InitSkip ==
  /\ InitProcess
  /\ current_model = DefaultWeight
  /\ clients = {}
  /\ video = [r \in Requests |-> IdleVideo]
  /\ target_fps = [r \in Requests |-> 1]
  /\ ffmpeg_installed = TRUE
  /\ storage_faulty = FALSE
  /\ ValidForms
  /\ NoNearestCall
  /\ sk_in \in [video_fps : 0..MaxSourceFps, target_fps : MinTargetFps..MaxTargetFps]
  /\ sk_out = NotComputed

NextSkip == skip_frames_call

SpecSkip == InitSkip /\ [][NextSkip]_vars

\* ===================================================================
\* Properties
\* ===================================================================

Types(es) == [i \in 1..Len(es) |-> es[i].type]
Has(es, type) == \E i \in 1..Len(es) : es[i].type = type

\* es is a prefix of: status, frame*, complete, video_ready, with the frame
\* numbers increasing
PrefixShape(es) ==
  /\ Len(es) >= 1 => es[1].type = "status"
  /\ \A i \in 2..Len(es) :
       \/ /\ es[i].type = "frame"
          /\ es[i-1].type \in {"status", "frame"}
          /\ es[i-1].type = "frame" => es[i].num > es[i-1].num
       \/ /\ es[i].type = "complete"
          /\ es[i-1].type \in {"status", "frame"}
       \/ /\ es[i].type = "video_ready"
          /\ es[i-1].type = "complete"

FullShape(es) ==
  /\ PrefixShape(es)
  /\ Len(es) >= 3
  /\ es[Len(es)].type = "video_ready"

Ended(r) == pc[r] \in {"done", "aborted"}
ClosedByConsumer(r) == error[r] = <<"closed">>
FFmpegNotFound == <<"FFmpeg not found. Please install FFmpeg to process videos.">>

\* C1 (as stated): every run of the generator that the consumer did not
\* abandon has emitted the full sequence status, frame*, complete,
\* video_ready by the time it ends.
C1_EveryRunFullShape ==
  \A r \in Requests : (Ended(r) /\ ~ClosedByConsumer(r)) => FullShape(events[r])

\* C1 (amended): the events emitted so far are always a prefix of status,
\* frame*, complete, video_ready with increasing frame numbers; video_ready is
\* there only once the encoder has exited with code 0 and produced the output;
\* a run that ends in Done has emitted the full sequence and a run that ends
\* in Aborted has emitted no video_ready.
C1_EventOrder ==
  \A r \in Requests :
    /\ PrefixShape(events[r])
    /\ Has(events[r], "video_ready") => (r \in outputs /\ pc[r] \in {"y_ready", "done"})
    /\ pc[r] = "done" => FullShape(events[r])
    /\ pc[r] = "aborted" => ~Has(events[r], "video_ready")

C1_Witness ==
  \E r \in Requests :
    /\ pc[r] = "done"
    /\ Types(events[r]) = <<"status", "frame", "frame", "complete", "video_ready">>

ScratchOf(r) == {i \in DOMAIN temp_frames : temp_frames[i].owner = r}

\* C2: when a video request has completed (Done or Aborted), its uploaded
\* source file and all its scratch frames have been removed.
C2_CleanedUp ==
  \A r \in Requests :
    Ended(r) => (r \notin uploads /\ ScratchOf(r) = {})

\* C3: when the encoder binary is absent, a run the consumer did not abandon
\* ends with status, the frame events numbered 0..k-1 and complete(k) and
\* nothing after them, and the error raised is the one that names FFmpeg.
C3_EncoderAbsent ==
  \A r \in Requests :
    (pc[r] = "aborted" /\ ~ffmpeg_installed /\ ~ClosedByConsumer(r)) =>
      /\ error[r] = FFmpegNotFound
      /\ PrefixShape(events[r])
      /\ events[r][Len(events[r])] = Ev("complete", processed_count[r], 0)
      /\ Len(events[r]) = processed_count[r] + 2
      /\ \A k \in 1..processed_count[r] :
           events[r][k + 1].type = "frame" /\ events[r][k + 1].num = k - 1
      /\ Len(scratch_log[r]) = video[r].frames

C3_Witness ==
  \E r \in Requests :
    /\ pc[r] = "aborted" /\ ~ffmpeg_installed
    /\ error[r] = FFmpegNotFound
    /\ Types(events[r]) = <<"status", "frame", "complete">>

Raised(r) == {k \in 1..Len(submitted[r]) : submitted[r][k].outcome = "raise"}

\* C4: a sampled frame i on which detection raised has the empty detection
\* set under key i; the loop has moved on to frame i+1; and the failure does
\* not end the run: a run that ended, other than by the consumer leaving,
\* has emitted complete.
C4_FrameFailureRecovered ==
  \A r \in Requests :
    /\ \A k \in Raised(r) :
         LET i == submitted[r][k].frame
         IN /\ i \in DOMAIN detection_results[r]
            /\ detection_results[r][i] = <<>>
            /\ pc[r] \in {"read1", "sleep", "y_frame"} => frame_count[r] > i
            /\ (k < Len(submitted[r])) => submitted[r][k + 1].frame = i + skip_frames[r]
    /\ (Raised(r) # {} /\ Ended(r) /\ ~ClosedByConsumer(r)) => Has(events[r], "complete")

C4_Witness ==
  \E r \in Requests :
    /\ pc[r] = "y_complete"
    /\ Len(submitted[r]) = 2
    /\ submitted[r][1].outcome = "raise"
    /\ submitted[r][2].outcome = "ok"
    /\ detection_results[r][0] = <<>>

\* C5: two requests in flight never touch each other's scratch frames: every
\* scratch frame a request has written is still in static/temp_frames, and
\* still its own, until its encoder has finished.
C5_ScratchIsolated ==
  \A r \in Requests :
    pc[r] \in {"read2", "spawn", "enc_wait"} =>
      \A k \in 1..Len(scratch_log[r]) :
        /\ scratch_log[r][k].idx \in DOMAIN temp_frames
        /\ temp_frames[scratch_log[r][k].idx].owner = r

\* C6: every frame of a request on which detection ran to its end was
\* detected with the model that was current when the request started,
\* whatever switch_model does in between.
C6_SwitchHasNoEffect ==
  \A r \in Requests :
    \A k \in 1..Len(submitted[r]) :
      submitted[r][k].outcome = "ok" => submitted[r][k].model = start_model[r]

\* C7: _find_nearest_processed_frame(i, K) returns i when K is empty, and
\* otherwise an element of K at minimal distance from i, the lower one when
\* two are equally distant; frame 7 with K = {0,5,10} maps to 5.
C7_NearestIsLinearMinimum ==
  nf_out # NotComputed =>
    LET i == nf_in.cur
        K == nf_in.keys
    IN /\ K = {} => nf_out = i
       /\ K # {} =>
            /\ nf_out \in K
            /\ \A k \in K : Abs(i - nf_out) <= Abs(i - k)
            /\ \A k \in K : Abs(i - nf_out) = Abs(i - k) => nf_out <= k
       /\ (i = 7 /\ K = {0, 5, 10}) => nf_out = 5

C7_Witness ==
  /\ nf_in = [cur |-> 7, keys |-> {0, 5, 10}]
  /\ nf_out = 5

\* the key of K nearest to i, the lower of two equally distant ones
NearestKey(i, K) ==
  CHOOSE k \in K : \A j \in K :
    Abs(i - k) < Abs(i - j) \/ (Abs(i - k) = Abs(i - j) /\ k <= j)

ExpectedBoxes(r, i) ==
  IF DOMAIN detection_results[r] = {} THEN <<>>
  ELSE detection_results[r][NearestKey(i, DOMAIN detection_results[r])]

\* C8: the second pass writes the scratch frames 0, 1, 2, ... in this order,
\* one per source frame, each with the source frame's own pixels and the
\* detection set of its nearest DetectionIndex entry (the empty set when the
\* index is empty); when the pass is over there are exactly N of them, and
\* they are the content of the scratch directory handed to the encoder.
C8_ScratchContiguous ==
  \A r \in Requests :
    /\ \A k \in 1..Len(scratch_log[r]) :
         scratch_log[r][k] =
           [idx |-> k - 1, src |-> k - 1, boxes |-> ExpectedBoxes(r, k - 1)]
    /\ pc[r] = "read2" => Len(scratch_log[r]) = frame_count[r]
    /\ pc[r] \in {"spawn", "enc_wait", "y_ready", "done"} =>
         Len(scratch_log[r]) = video[r].frames
    /\ pc[r] \in {"spawn", "enc_wait"} =>
         /\ DOMAIN temp_frames = 0..(video[r].frames - 1)
         /\ \A i \in DOMAIN temp_frames :
              temp_frames[i] = [owner |-> r, src |-> i, boxes |-> ExpectedBoxes(r, i)]

C8_Witness ==
  \E r \in Requests :
    /\ pc[r] = "spawn"
    /\ video[r].frames = 3 /\ skip_frames[r] = 2
    /\ submitted[r][1].outcome = "raise"
    /\ [k \in 1..3 |-> scratch_log[r][k].boxes] = <<<<>>, <<>>, <<"logo">>>>

SubmittedFrames(r) == {submitted[r][k].frame : k \in 1..Len(submitted[r])}

\* number of source frames the first loop has dealt with, where that is known
Visited(r) ==
  IF pc[r] = "read1" THEN frame_count[r]
  ELSE IF pc[r] \in {"sleep", "y_frame"} THEN frame_count[r] + 1
  ELSE IF Has(events[r], "complete") THEN video[r].frames
  ELSE 0 - 1

\* C9: the first pass submits frames in increasing order, and among the
\* frames it has visited it has submitted exactly those with i mod skip = 0.
C9_SampledIffMultiple ==
  \A r \in Requests :
    /\ \A k \in 1..Len(submitted[r]) : submitted[r][k].frame % skip_frames[r] = 0
    /\ \A k \in 1..(Len(submitted[r]) - 1) :
         submitted[r][k].frame < submitted[r][k + 1].frame
    /\ Visited(r) >= 0 =>
         SubmittedFrames(r) = {i \in 0..(Visited(r) - 1) : i % skip_frames[r] = 0}

C9_Witness ==
  \E r \in Requests :
    /\ pc[r] = "y_complete"
    /\ video[r].frames = 3 /\ skip_frames[r] = 2
    /\ SubmittedFrames(r) = {0, 2}

Ceil(n, d) == (n + d - 1) \div d
NoImage(r) == {k \in 1..Len(submitted[r]) : submitted[r][k].outcome = "none"}

\* C10 (as stated): at the end of the sampling pass the DetectionIndex has
\* ceil(N/S) entries.
C10_IndexSizeIsCeil ==
  \A r \in Requests :
    pc[r] = "y_complete" =>
      Cardinality(DOMAIN detection_results[r]) = Ceil(video[r].frames, skip_frames[r])

\* C10 (amended): at the end of the sampling pass ceil(N/S) frames have been
\* submitted to detection, and the DetectionIndex has one entry for each of
\* them except those for which no rendered image came back.
C10_SubmittedIsCeil ==
  \A r \in Requests :
    Has(events[r], "complete") =>
      /\ Len(submitted[r]) = Ceil(video[r].frames, skip_frames[r])
      /\ Cardinality(DOMAIN detection_results[r]) =
           Ceil(video[r].frames, skip_frames[r]) - Cardinality(NoImage(r))
      /\ DOMAIN detection_results[r] =
           {submitted[r][k].frame : k \in (1..Len(submitted[r])) \ NoImage(r)}

C10_Witness ==
  \E r \in Requests :
    /\ pc[r] = "y_complete"
    /\ video[r].frames = 3 /\ skip_frames[r] = 2
    /\ Len(submitted[r]) = 2
    /\ Cardinality(NoImage(r)) = 1
    /\ Cardinality(DOMAIN detection_results[r]) = 1

\* C11: for every source rate >= 0 and every target rate from 1 to 30 the
\* result s of calculate_skip_frames is at least 1; it is the floor of
\* source/target (s * target <= source < (s + 1) * target) when that is at
\* least 1, and 1 when the source rate is below the target rate.
C11_SkipIsMaxOneFloor ==
  sk_out # NotComputed =>
    LET a == sk_in.video_fps
        b == sk_in.target_fps
    IN /\ sk_out >= 1
       /\ a >= b => (sk_out * b <= a /\ a < (sk_out + 1) * b)
       /\ a < b => sk_out = 1

C11_Witness ==
  /\ sk_in = [video_fps |-> 29, target_fps |-> 30]
  /\ sk_out = 1

\* C12: a video or image request whose confidence threshold is outside
\* [0,1] never gets past the route's validation: its upload is never read,
\* no file of it exists in storage, no frame of it is read or submitted to
\* detection, no event is emitted, and once handled it has an error.
OutsideUnitInterval(c) == ~(0 <= c /\ c <= 10)

Untouched(r) ==
  /\ ~upload_read[r]
  /\ r \notin uploads /\ r \notin outputs
  /\ \A i \in DOMAIN temp_frames : temp_frames[i].owner # r
  /\ \A i \in DOMAIN frames_dir : frames_dir[i] # r
  /\ ~cap_open[r] /\ frame_count[r] = 0
  /\ submitted[r] = <<>>
  /\ events[r] = <<>>

C12_BadConfidenceRejected ==
  \A r \in clients :
    OutsideUnitInterval(confidence[r]) =>
      /\ Untouched(r)
      /\ pc[r] \in {"idle", "rejected"}
      /\ pc[r] = "rejected" => error[r] # NoError

C12_Witness ==
  /\ confidence[1] = 11 /\ confidence[2] = 0 - 1
  /\ current_model # NoModel /\ file_valid[1] /\ ~FpsRejected(target_fps[1])
  /\ pc[1] = "rejected" /\ pc[2] = "rejected"
  /\ error[1] = <<"Confidence threshold must be between 0.0 and 1.0">>
  /\ error[2] = error[1]

\* C13: a video request that has ended, other than by its consumer going
\* away, shows exactly one of three outcomes: (a) the full event sequence
\* ending in video_ready; (b) events up to and including complete and then
\* nothing, with no video_ready; (c) an error response and no event at all.
\* The source that could not be opened always gives (c), and a request that
\* got as far as opening its source never gives (c): no stream stops before
\* complete.
Finished(r) == pc[r] \in {"done", "aborted", "failed", "rejected"}

OutcomeFull(r) == pc[r] = "done" /\ FullShape(events[r])

OutcomePartial(r) ==
  /\ pc[r] = "aborted"
  /\ PrefixShape(events[r])
  /\ Len(events[r]) >= 2
  /\ events[r][Len(events[r])].type = "complete"

OutcomeEarlyFailure(r) ==
  /\ pc[r] \in {"failed", "rejected"}
  /\ events[r] = <<>>
  /\ error[r] # NoError

C14_UnopenableSourceFails ==
  \A r \in clients :
    (kind[r] = "video" /\ upload_read[r] /\ ~video[r].openable
        /\ pc[r] # "reading") =>
      /\ pc[r] = "failed"
      /\ error[r] = <<"Error processing video", "Could not open video file">>
      /\ events[r] = <<>>
      /\ r \notin uploads /\ r \notin outputs
      /\ ScratchOf(r) = {}
      /\ \A i \in DOMAIN frames_dir : frames_dir[i] # r
      /\ submitted[r] = <<>> /\ scratch_log[r] = <<>>
      /\ ~cap_open[r]

C14_Witness ==
  \E r \in clients :
    /\ kind[r] = "video" /\ upload_read[r] /\ ~video[r].openable
    /\ pc[r] = "failed"
    /\ current_model = OtherWeight

\* phases of the orchestrator, by the position of the generator
Sampling == {"created", "y_status", "read1", "sleep", "y_frame", "y_complete"}
Interpolating == {"read2"}
Encoding == {"spawn", "enc_wait"}
Done == {"y_ready", "done"}
Aborted == {"aborted"}

PhaseRank(p) ==
  IF p \in Sampling THEN 1
  ELSE IF p \in Interpolating THEN 2
  ELSE IF p \in Encoding THEN 3
  ELSE IF p \in Done THEN 4
  ELSE IF p \in Aborted THEN 5
  ELSE 0

\* C15: in every step a request stays in its phase, moves to the next one of
\* Sampling, Interpolating, Encoding, Done, or moves from one of the first
\* three to Aborted; the first pass emits complete, and so lets the
\* interpolation pass start, only when it has run through all frames of the
\* source; and once complete is emitted the DetectionIndex never changes.
C15_PhasesInOrder ==
  [][\A r \in Requests :
       LET a == PhaseRank(pc[r])
           b == PhaseRank(pc'[r])
       IN /\ \/ b = a
             \/ a \in 0..3 /\ b = a + 1
             \/ a \in 1..3 /\ b = 5
          /\ (a = 1 /\ (b = 2 \/ Has(events'[r], "complete"))
                    /\ ~Has(events[r], "complete")) =>
               (frame_count[r] = video[r].frames /\ pc[r] = "read1")
          /\ b = 2 => Has(events[r], "complete")
          /\ Has(events[r], "complete") =>
               detection_results'[r] = detection_results[r]]_vars

C15_Witness ==
  \E r \in Requests :
    /\ pc[r] = "done"
    /\ Len(scratch_log[r]) = 3
    /\ DOMAIN detection_results[r] = {0, 2}

\* C16: a frame of the second pass whose nearest DetectionIndex entry has no
\* detections is written with its own pixels and no box; so when no entry
\* of the index has a detection, every frame written is its source frame
\* and every frame event has reported total_detections = 0.
Unmodified(e) == e.src = e.idx /\ e.boxes = <<>>

C16_EmptyNeighbourPassesThrough ==
  \A r \in Requests :
    LET K == DOMAIN detection_results[r]
    IN /\ \A k \in 1..Len(scratch_log[r]) :
            LET e == scratch_log[r][k]
            IN (K # {} /\ detection_results[r][NearestKey(e.idx, K)] = <<>>)
                 => Unmodified(e)
       /\ (Has(events[r], "complete")
             /\ \A i \in K : detection_results[r][i] = <<>>) =>
            /\ \A k \in 1..Len(scratch_log[r]) : Unmodified(scratch_log[r][k])
            /\ \A i \in ScratchOf(r) :
                 temp_frames[i].src = i /\ temp_frames[i].boxes = <<>>
            /\ \A k \in 1..Len(events[r]) :
                 events[r][k].type = "frame" => events[r][k].total = 0

C16_Witness ==
  \E r \in Requests :
    /\ pc[r] = "spawn"
    /\ Len(scratch_log[r]) = 3
    /\ DOMAIN detection_results[r] = {0, 2}
    /\ detection_results[r][0] = <<"logo">> /\ detection_results[r][2] = <<>>
    /\ Unmodified(scratch_log[r][3]) /\ ~Unmodified(scratch_log[r][1])
    /\ Types(events[r]) = <<"status", "frame", "frame", "complete">>

\* C17: a model is loaded and cached only by a switch to a weight that is
\* not in the cache yet; no weight is loaded more than once, whatever the
\* sequence of switch_model calls, a switch to a cached weight making it
\* current without loading; and the cache never loses an entry.
C17_CacheLoadsOnce ==
  /\ [](\A w \in WeightNames :
          /\ loads[w] <= 1
          /\ w \in models <=> loads[w] = 1)
  /\ [][/\ models \subseteq models'
        /\ \A w \in WeightNames :
             loads'[w] # loads[w] =>
               /\ w \notin models /\ models' = models \cup {w}
               /\ loads'[w] = loads[w] + 1
               /\ selected_weight' = w /\ current_model' = w
        /\ (current_model' # current_model /\ current_model' \in models) =>
             loads' = loads]_vars

C17_Witness ==
  /\ Len(submitted[1]) >= 2
  /\ submitted[1][1].model = DefaultWeight
  /\ submitted[1][2].model = OtherWeight
  /\ current_model = DefaultWeight
  /\ models = {DefaultWeight, OtherWeight}
  /\ loads[DefaultWeight] = 1 /\ loads[OtherWeight] = 1

\* errors a request can end with for a reason other than cleanup
PrimaryErrors ==
  {<<"closed">>,
   FFmpegNotFound,
   <<"Error creating video with FFmpeg", "FFmpeg failed to create video">>,
   <<"OSError", "temp_frames">>,
   <<"FileNotFoundError", "temp_frames">>}

\* C18: on storage where deleting the scratch directory or the upload may
\* fail, a successful encode is always followed by video_ready and the run
\* ends in Done without an error, whatever was left behind; a run that ends
\* in Aborted, and a request whose source could not be opened, end with the
\* error that stopped them, whether or not the upload could be deleted.
C18_CleanupNeverEscalates ==
  \A r \in clients :
    /\ r \in outputs => Has(events[r], "video_ready")
    /\ Has(events[r], "video_ready") => pc[r] \in {"y_ready", "done"}
    /\ pc[r] \in {"y_ready", "done"} => (error[r] = NoError /\ FullShape(events[r]))
    /\ pc[r] = "aborted" => error[r] \in PrimaryErrors
    /\ pc[r] = "failed" =>
         error[r] = <<"Error processing video", "Could not open video file">>

C18_Witness ==
  \E r \in clients :
    /\ storage_faulty
    /\ pc[r] = "done" /\ error[r] = NoError
    /\ r \in uploads /\ ScratchOf(r) # {}
    /\ Has(events[r], "video_ready")

\* the number written by the digits ds
RECURSIVE DigitsValue(_)
DigitsValue(ds) ==
  IF ds = <<>> THEN 0
  ELSE 10 * DigitsValue(SubSeq(ds, 1, Len(ds) - 1)) + ds[Len(ds)]

\* C19: the k-th frame event of a request (k from 0; it is the event at
\* position k + 2, after status) carries frame_number k and a file name
\* whose index is k written with 6 digits; that file is in static/frames;
\* so the frame numbers are 0, 1, 2, ... whatever the skip interval.
C19_FrameEventsSequential ==
  \A r \in Requests :
    \A i \in 1..Len(events[r]) :
      events[r][i].type = "frame" =>
        LET k == i - 2
            e == events[r][i]
        IN /\ e.num = k
           /\ Len(e.file) = 6
           /\ \A j \in 1..6 : e.file[j] \in 0..9
           /\ DigitsValue(e.file) = k
           /\ k \in DOMAIN frames_dir /\ frames_dir[k] = r

C19_Witness ==
  \E r \in Requests :
    /\ skip_frames[r] = 2 /\ video[r].frames = 3
    /\ Types(events[r]) = <<"status", "frame", "frame", "complete">>
    /\ submitted[r][2].frame = 2
    /\ events[r][3].num = 1
    /\ events[r][3].file = <<0, 0, 0, 0, 0, 1>>

OkSubmitted(r) == {k \in 1..Len(submitted[r]) : submitted[r][k].outcome = "ok"}

\* C20: the total_frames of the complete event is the number of frame events
\* before it; frames on which detection raised or gave no image are not in
\* that number: it is the number of frames detection succeeded on (none of
\* which gets an event when the source reports a frame rate of 0).
C20_TotalIsFrameEventCount ==
  \A r \in Requests :
    \A i \in 1..Len(events[r]) :
      events[r][i].type = "complete" =>
        /\ events[r][i].num =
             Cardinality({j \in 1..(i - 1) : events[r][j].type = "frame"})
        /\ events[r][i].num =
             IF video[r].fps = 0 THEN 0 ELSE Cardinality(OkSubmitted(r))
        /\ events[r][i].num =
             Len(submitted[r]) - Cardinality(Raised(r)) - Cardinality(NoImage(r))
               - (IF video[r].fps = 0 THEN Cardinality(OkSubmitted(r)) ELSE 0)

C20_Witness ==
  \E r \in Requests :
    /\ pc[r] = "y_complete"
    /\ [k \in 1..Len(submitted[r]) |-> submitted[r][k].outcome]
         = <<"raise", "none", "ok">>
    /\ events[r][Len(events[r])].type = "complete"
    /\ events[r][Len(events[r])].num = 1

\* C21: whenever a model is loaded, the name get_current_model_name reports
\* (config.selected_weight) is the name under which current_model is cached.
C21_ReportedNameIsCurrent ==
  current_model # NoModel => selected_weight = current_model

\* C22: an entry of the DetectionIndex, once recorded for a sampled frame,
\* stays as it is for the rest of the request: no later step removes it or
\* replaces its detections.
C22_RecordedDetectionsKept ==
  [][\A r \in Requests :
       \A i \in DOMAIN detection_results[r] :
         /\ i \in DOMAIN detection_results'[r]
         /\ detection_results'[r][i] = detection_results[r][i]]_vars

\* with storage working: a request whose stream was created ends in Done or
\* Aborted, with cap.release() called and the removal of its upload attempted
TerminatesReleased ==
  \A r \in Requests :
    (pc[r] = "created") ~>
      (pc[r] \in {"done", "aborted"} /\ ~cap_open[r] /\ unlink_tried[r])

\* the generator of request r is over, by whatever way it was left
Exited(r) == pc[r] \in {"done", "aborted", "crashed"}

\* C23: on every way out of the generator the request is in Done or Aborted,
\* cap.release() has been called and the removal of the upload attempted.
C23_ReleasedOnEveryExit ==
  \A r \in clients :
    Exited(r) =>
      /\ pc[r] \in {"done", "aborted"}
      /\ ~cap_open[r]
      /\ unlink_tried[r]

====
